---------------------------- MODULE Spec2Model ----------------------------
(***************************************************************************)
(* Model of medusa/storage/__init__.py (class Storage): the index naming   *)
(* codec, list_node_backups with its self-healing index cleanup, and the   *)
(* cluster level queries built on it.                                      *)
(*                                                                         *)
(* Strings are sequences of tokens.  A token is either one character       *)
(* (".", "/", "_", a digit, a letter) or one of the words the code looks   *)
(* for ("tokenmap", "started", "json", ...).  Substring tests, the two     *)
(* regular expressions, split('/') and str.replace are computed on these   *)
(* sequences the way Python computes them on characters.                   *)
(***************************************************************************)
EXTENDS Integers, Sequences, FiniteSets, TLC

(***************************************************************************)
(* Strings                                                                 *)
(***************************************************************************)

\* the kinds of INDEX_BLOB_NAME_PATTERN
Kinds == {"tokenmap", "schema", "manifest", "differential", "incremental"}

\* the kinds of INDEX_BLOB_WITH_TIMESTAMP_PATTERN
TsKinds == {"started", "finished"}

\* [0-9]
Digits == {"0", "1", "2", "3", "4", "5", "6", "7", "8", "9"}

\* the tokens that stand for one character: what an unescaped "." matches
AnyChar == Digits \cup {".", "/", "_", "-", "a", "e", "n", "x"}

\* the extensions remove_extension strips, in the order of its dict
Extensions == <<"json", "cql", "txt", "timestamp">>

\* the tokens in the order Python compares the strings they stand for
TokenOrder ==
    <<"-", ".", "/", "0", "1", "2", "3", "4", "5", "6", "7", "8", "9", "_",
      "a", "backup_index", "backup_name", "cql", "data", "differential", "e",
      "finished",
      "incremental", "index", "json", "latest_backup", "manifest", "meta",
      "n", "schema", "started", "timestamp", "tokenmap", "txt", "x">>

Rank(t) == CHOOSE i \in 1..Len(TokenOrder) : TokenOrder[i] = t

\* s < t for Python strings
RECURSIVE StrLess(_, _)
StrLess(s, t) ==
    IF t = <<>> THEN FALSE
    ELSE IF s = <<>> THEN TRUE
    ELSE IF Head(s) = Head(t) THEN StrLess(Tail(s), Tail(t))
    ELSE Rank(Head(s)) < Rank(Head(t))

\* "p in s" for strings
IsSubstr(p, s) ==
    \E i \in 0..(Len(s) - Len(p)) : SubSeq(s, i + 1, i + Len(p)) = p

\* s.split('/')
RECURSIVE Split(_)
Split(s) ==
    IF \A i \in 1..Len(s) : s[i] # "/" THEN <<s>>
    ELSE LET i == CHOOSE k \in 1..Len(s) :
                      s[k] = "/" /\ \A j \in 1..(k - 1) : s[j] # "/"
         IN <<SubSeq(s, 1, i - 1)>> \o Split(SubSeq(s, i + 1, Len(s)))

\* s.replace('.' + ext, ''): every occurrence, left to right, in one pass
RECURSIVE Replace(_, _)
Replace(s, ext) ==
    IF Len(s) < 2 THEN s
    ELSE IF s[1] = "." /\ s[2] = ext THEN Replace(SubSeq(s, 3, Len(s)), ext)
    ELSE <<s[1]>> \o Replace(Tail(s), ext)

RECURSIVE ReplaceAll(_, _)
ReplaceAll(s, k) ==
    IF k > Len(Extensions) THEN s
    ELSE ReplaceAll(Replace(s, Extensions[k]), k + 1)

remove_extension(fqdn_with_extension) == ReplaceAll(fqdn_with_extension, 1)

DigitVal(d) == Rank(d) - Rank("0")

\* int(digits)
RECURSIVE int(_)
int(ds) ==
    IF ds = <<>> THEN 0
    ELSE 10 * int(SubSeq(ds, 1, Len(ds) - 1)) + DigitVal(ds[Len(ds)])

Max(S) == CHOOSE x \in S : \A y \in S : y <= x
Min(S) == CHOOSE x \in S : \A y \in S : x <= y

(***************************************************************************)
(* The two patterns.  A match is <<i, j>>: s[i] is the kind, group 2 is    *)
(* s[i+2 .. j-2] and, for the timestamp pattern, group 3 is s[j .. n-2].   *)
(* The leading ".*" and group 2 are greedy: the largest i that lets the    *)
(* rest match, then the largest j.                                         *)
(***************************************************************************)

\* .*(started|finished)_(.*)_([0-9]+).timestamp$
TsStarts(s) ==
    {p \in (1..Len(s)) \X (1..Len(s)) :
        /\ s[p[1]] \in TsKinds
        /\ p[1] + 1 <= Len(s) /\ s[p[1] + 1] = "_"
        /\ p[2] - 1 >= p[1] + 2 /\ s[p[2] - 1] = "_"
        /\ p[2] <= Len(s) - 2
        /\ \A k \in p[2]..(Len(s) - 2) : s[k] \in Digits
        /\ s[Len(s) - 1] \in AnyChar
        /\ s[Len(s)] = "timestamp"}

TsMatches(s) == TsStarts(s) # {}

TsMatch(s) ==
    LET i == Max({p[1] : p \in TsStarts(s)})
        j == Max({p[2] : p \in {q \in TsStarts(s) : q[1] = i}})
    IN [group2 |-> SubSeq(s, i + 2, j - 2), group3 |-> SubSeq(s, j, Len(s) - 2)]

\* .*(tokenmap|schema|manifest|differential|incremental)_(.*)$
NameStarts(s) ==
    {i \in 1..Len(s) : s[i] \in Kinds /\ i + 1 <= Len(s) /\ s[i + 1] = "_"}

NameMatches(s) == NameStarts(s) # {}

NameMatch(s) ==
    LET i == Max(NameStarts(s)) IN [group2 |-> SubSeq(s, i + 2, Len(s))]

\* the assertion of get_fqdn_from_any_index_blob holds
WellFormed(blob_name) == TsMatches(blob_name) \/ NameMatches(blob_name)

\* the timestamp pattern is tried first, because the second is more generic
get_fqdn_from_any_index_blob(blob_name) ==
    IF TsMatches(blob_name) THEN remove_extension(TsMatch(blob_name).group2)
    ELSE remove_extension(NameMatch(blob_name).group2)

\* the assertion of get_timestamp_from_blob_name holds
HasTimestamp(blob_name) == TsMatches(blob_name)

get_timestamp_from_blob_name(blob_name) == int(TsMatch(blob_name).group3)


(***************************************************************************)
(* Bounds and the universe of stored keys                                  *)
(***************************************************************************)

\* timestamps of the markers range over 1..MaxTs
MaxTs == 2

\* the index holds at most MaxBackups groups of entries
MaxBackups == 2

None == <<"None">>
NoBlob == 0
NoTs == -1

\* backup names are free text: one of them is the name of a backup mode
BackupNames == {<<"a">>, <<"differential">>}
Fqdns == {<<"n">>, <<"n", "x">>}
Pairs == BackupNames \X Fqdns

RECURSIVE str(_)
str(n) ==
    IF n < 10 THEN <<TokenOrder[Rank("0") + n]>>
    ELSE str(n \div 10) \o <<TokenOrder[Rank("0") + (n % 10)]>>

IndexPrefix == <<"index", "/", "backup_index", "/">>

\* index/backup_index/<backup_name>/<kind>_<node_id>.<ext>
IndexKey(name, kind, fqdn, ext) ==
    IndexPrefix \o name \o <<"/", kind, "_">> \o fqdn \o <<".", ext>>

\* index/backup_index/<backup_name>/<kind>_<node_id>_<unix_seconds>.timestamp
TsKey(name, kind, fqdn, ts) ==
    IndexPrefix \o name \o <<"/", kind, "_">> \o fqdn \o <<"_">> \o str(ts)
        \o <<".", "timestamp">>

\* <node_id>/<backup_name>/meta/schema
SchemaPath(fqdn, name) == fqdn \o <<"/">> \o name \o <<"/", "meta", "/", "schema">>

\* what a backup run leaves in the index for one pair: the entries written
\* with the tokenmap, and the started and finished markers (0: no marker); a
\* run finishes no earlier than it starts
Profiles ==
    {p \in [tokenmap : BOOLEAN, started : 0..MaxTs, finished : 0..MaxTs] :
        /\ p.tokenmap \/ p.started = 1
        /\ p.started = 0 \/ ~p.tokenmap => p.finished = 0
        /\ p.finished > 0 => p.finished >= p.started}

ProfileKeys(pair, p) ==
    (IF p.tokenmap
     THEN {IndexKey(pair[1], "tokenmap", pair[2], "json"),
           IndexKey(pair[1], "schema", pair[2], "cql"),
           IndexKey(pair[1], "manifest", pair[2], "json")}
     ELSE {})
    \cup (IF p.started > 0 THEN {TsKey(pair[1], "started", pair[2], p.started)} ELSE {})
    \cup (IF p.finished > 0 THEN {TsKey(pair[1], "finished", pair[2], p.finished)} ELSE {})

\* keys no backup run writes: a late started marker, a kind the patterns do
\* not know, a marker without its timestamp, a nested key
ExtraKeys ==
    {TsKey(<<"a">>, "started", <<"n">>, MaxTs + 1),
     IndexPrefix \o <<"a", "/", "meta", "_", "n", ".", "json">>,
     IndexPrefix \o <<"e", "/", "started", "_", "n", ".", "timestamp">>,
     IndexPrefix \o <<"a", "/", "x", "/", "tokenmap", "_", "n", ".", "json">>}

(***************************************************************************)
(* The storage backend                                                     *)
(***************************************************************************)

VARIABLES
    index,               \* the keys stored under index/
    data,                \* the keys stored in the data namespace
    index0,              \* the index when the listing started
    pc,                  \* "idle", "walk", "done", "raised", "returned"
    fqdn_arg,            \* list_node_backups' fqdn argument
    sorted_node_backups, \* the candidates with a start time, sorted by it
    pos,                 \* how many of them the loop of line 201 has taken
    previous_existed,
    log,                 \* the probes, yields and removals of the pass, in order
    error,               \* the exception that ended the call, or "none"
    result,              \* what the call returned to its caller
    latest,              \* the objects stored under index/latest_backup/
    pc2,                 \* where the call on the latest-backup pointers stands
    fqdn2,               \* its fqdn argument
    markers,             \* the markers it listed and has not deleted yet
    provider,            \* config.storage_provider
    attempts,            \* the calls the retry decorator has made
    first_pass           \* what an earlier pass of list_node_backups yielded

\* the variables of a list_node_backups pass and of its caller
list_vars == <<index, data, index0, pc, fqdn_arg, sorted_node_backups, pos,
               previous_existed, log, error, result>>

\* the variables a list_node_backups pass does not touch
other_vars == <<latest, pc2, fqdn2, markers, provider, attempts, first_pass>>

vars == <<index, data, index0, pc, fqdn_arg, sorted_node_backups, pos,
          previous_existed, log, error, result, latest, pc2, fqdn2, markers,
          provider, attempts, first_pass>>

\* every key the index can hold
KeyUniverse ==
    UNION {ProfileKeys(pair, p) : pair \in Pairs, p \in Profiles} \cup ExtraKeys

RECURSIVE SortKeys(_)
SortKeys(S) ==
    IF S = {} THEN <<>>
    ELSE LET m == CHOOSE x \in S : \A y \in S \ {x} : StrLess(x, y)
         IN <<m>> \o SortKeys(S \ {m})

\* the keys of the universe in key order; a blob is known by the place of its
\* name in it, so that blobs compare as their names do
KeyOrder == SortKeys(KeyUniverse)

Blobs == 1..Len(KeyOrder)

\* the function f as an explicit table, computed once
Table(f) == f @@ f

\* the blob whose name is a key of the universe
BlobOf(k) == CHOOSE blob \in Blobs : KeyOrder[blob] = k

\* the blobs whose names are among the keys
BlobsOf(keys) == {b : b \in {blob \in Blobs : KeyOrder[blob] \in keys}}

\* what the codec computes for a key and for its last path segment (lines
\* 161-163), and what the substring tests find in it: the words, and the
\* node names a listing can be asked for; codec tabulates it once for the
\* name of each blob
decoded(k) ==
    LET parts == Split(k) IN
    [name |-> k,
     parts |-> parts,
     words |-> {k[i] : i \in 1..Len(k)},
     fqdns |-> {f : f \in {fqdn \in Fqdns : IsSubstr(fqdn, k)}},
     well_formed |-> WellFormed(k),
     fqdn |-> IF WellFormed(k) THEN get_fqdn_from_any_index_blob(k) ELSE None,
     has_timestamp |-> HasTimestamp(k),
     timestamp |-> IF HasTimestamp(k) THEN get_timestamp_from_blob_name(k) ELSE NoTs,
     file_well_formed |-> Len(parts) = 4 /\ WellFormed(parts[4]),
     file_fqdn |-> IF Len(parts) = 4 /\ WellFormed(parts[4])
                   THEN get_fqdn_from_any_index_blob(parts[4]) ELSE None]

codec == Table([blob \in Blobs |-> decoded(KeyOrder[blob])])

BlobOrder == [blob \in Blobs |-> blob]

\* storage_driver.list_objects(path): the blobs under the prefix, in key order
list_objects(store, path) ==
    SelectSeq(BlobOrder,
              LAMBDA blob : /\ blob \in store
                            /\ Len(KeyOrder[blob]) >= Len(path)
                            /\ SubSeq(KeyOrder[blob], 1, Len(path)) = path)

list_backup_index_blobs(store) == list_objects(store, <<"index", "/", "backup_index">>)

(***************************************************************************)
(* NodeBackup and the index cleanup (medusa.storage.node_backup and        *)
(* medusa.index, as the specification describes them)                      *)
(***************************************************************************)

NodeBackup(name, fqdn, manifest_blob, schema_blob, tokenmap_blob, started_blob, started_timestamp, finished_blob, finished_timestamp, differential_blob) ==
    [name |-> name, fqdn |-> fqdn, manifest_blob |-> manifest_blob,
     schema_blob |-> schema_blob, tokenmap_blob |-> tokenmap_blob,
     started_blob |-> started_blob, started |-> started_timestamp,
     finished_blob |-> finished_blob, finished |-> finished_timestamp,
     differential_blob |-> differential_blob]

\* NodeBackup.exists(): the schema file is present in the data namespace
exists(node_backup, store) == SchemaPath(node_backup.fqdn, node_backup.name) \in store

\* blob.name.split('/')[2]
get_backup_name(blob_name) == codec[blob_name].parts[3]

\* the index entries of one (backup_name, node)
EntriesOf(store, name, fqdn) ==
    {k \in store :
        /\ Len(codec[k].parts) >= 3
        /\ codec[k].well_formed
        /\ get_backup_name(k) = name
        /\ codec[k].fqdn = fqdn}

\* medusa.index.clean_backup_from_index: deletes every index entry of the
\* node backup's (backup_name, node)
clean_backup_from_index(store, node_backup) ==
    store \ EntriesOf(store, node_backup.name, node_backup.fqdn)

\* a removal that deletes nothing
remove_backup_from_index_keeps(store, node_backup) == store

\* a removal that deletes one entry of the node backup per call
remove_backup_from_index_one(store, node_backup) ==
    LET entries == EntriesOf(store, node_backup.name, node_backup.fqdn)
    IN IF entries = {} THEN store
       ELSE store \ {CHOOSE blob \in entries : \A other \in entries : blob <= other}

\* a removal that deletes the entries of every backup of the node
remove_backup_from_index_of_node(store, node_backup) ==
    {k \in store : codec[k].well_formed => codec[k].fqdn # node_backup.fqdn}

remove_backup_from_index(store, node_backup) ==
    clean_backup_from_index(store, node_backup)

(***************************************************************************)
(* list_node_backups up to its first yield: listing, grouping, candidates, *)
(* sort                                                                    *)
(***************************************************************************)

\* a name_and_fqdn that raises on no blob
name_and_fqdn_no_error(backup_index_blobs) == "none"

\* the exception name_and_fqdn raises on some blob while the blobs are
\* sorted, or "none"
name_and_fqdn_error(backup_index_blobs) ==
    IF \E i \in 1..Len(backup_index_blobs) : Len(codec[backup_index_blobs[i]].parts) < 3
    THEN "IndexError"
    ELSE IF \E i \in 1..Len(backup_index_blobs) : ~codec[backup_index_blobs[i]].well_formed
    THEN "AssertionError"
    ELSE "none"

Range(seq) == {seq[i] : i \in 1..Len(seq)}

\* the dict backup_name -> fqdn -> blobs: the sort by (name, fqdn) is stable
\* and the groups are cut consecutively, so a group holds the blobs of that
\* name and node in the order of the listing
RECURSIVE group_by_fqdn(_, _)
group_by_fqdn(blobs, fqdns) ==
    IF fqdns = {} THEN <<>>
    ELSE LET fqdn == CHOOSE x \in fqdns : TRUE
             node_blobs == SelectSeq(blobs, LAMBDA b : codec[b].fqdn = fqdn)
         IN IF fqdns = {fqdn} THEN fqdn :> node_blobs
            ELSE (fqdn :> node_blobs) @@ group_by_fqdn(blobs, fqdns \ {fqdn})

RECURSIVE group_by_backup_name(_, _)
group_by_backup_name(blobs, names) ==
    IF names = {} THEN <<>>
    ELSE LET backup_name == CHOOSE x \in names : TRUE
             named == SelectSeq(blobs, LAMBDA b : get_backup_name(b) = backup_name)
             blobs_by_node == group_by_fqdn(named, {codec[b].fqdn : b \in Range(named)})
         IN IF names = {backup_name} THEN backup_name :> blobs_by_node
            ELSE (backup_name :> blobs_by_node)
                     @@ group_by_backup_name(blobs, names \ {backup_name})

group_backup_index_by_backup_and_node(backup_index_blobs) ==
    group_by_backup_name(backup_index_blobs,
                         {get_backup_name(b) : b \in Range(backup_index_blobs)})

\* the first blob of the group whose name contains the chunk, or None
lookup_blob(blobs_by_backup, backup_name, fqdn, blob_name_chunk) ==
    LET blob_list == SelectSeq(blobs_by_backup[backup_name][fqdn],
                               LAMBDA blob : blob_name_chunk \in codec[blob].words)
    IN IF Len(blob_list) > 0 THEN blob_list[1] ELSE NoBlob

is_tokenmap_file(blob_name) == "tokenmap" \in codec[blob_name].words

get_all_backup_blob_names(blobs) == SelectSeq(blobs, is_tokenmap_file)

get_blobs_for_fqdn(blobs, fqdn) == SelectSeq(blobs, LAMBDA b : fqdn \in codec[b].fqdns)

relevant_backup_names(backup_index_blobs, fqdn) ==
    IF fqdn # None
    THEN get_blobs_for_fqdn(get_all_backup_blob_names(backup_index_blobs), fqdn)
    ELSE get_all_backup_blob_names(backup_index_blobs)

\* the value of a local variable not assigned yet: no blob
Unbound == Len(KeyOrder) + 1

\* the loop of lines 160-190 over the entries left; differential is the
\* value the variables differential_blob/incremental_blob hold from the
\* iteration before (Unbound in the first)
RECURSIVE node_backups(_, _, _, _)
node_backups(entries, blobs_by_backup, acc, differential) ==
    IF entries = <<>> THEN [error |-> "none", node_backups |-> acc]
    ELSE
    LET parts == codec[Head(entries)].parts IN
    IF Len(parts) # 4 THEN [error |-> "ValueError", node_backups |-> <<>>]
    ELSE IF ~codec[Head(entries)].file_well_formed
    THEN [error |-> "AssertionError", node_backups |-> <<>>]
    ELSE
    LET backup_name == parts[3]
        tokenmap_fqdn == codec[Head(entries)].file_fqdn
        lookup(chunk) == lookup_blob(blobs_by_backup, backup_name, tokenmap_fqdn, chunk)
    IN
    IF tokenmap_fqdn \notin DOMAIN blobs_by_backup[backup_name]
    THEN IF differential = Unbound
         THEN [error |-> "UnboundLocalError", node_backups |-> <<>>]
         ELSE node_backups(Tail(entries), blobs_by_backup,
                  Append(acc, NodeBackup(backup_name, tokenmap_fqdn, NoBlob, NoBlob,
                                         NoBlob, NoBlob, NoTs, NoBlob, NoTs,
                                         differential)),
                  differential)
    ELSE
    LET started_blob == lookup("started")
        finished_blob == lookup("finished")
        differential_blob == lookup("differential")
        incremental_blob == lookup("incremental")
        differential_or_incremental ==
            IF differential_blob # NoBlob THEN differential_blob ELSE incremental_blob
    IN
    IF \/ started_blob # NoBlob /\ ~codec[started_blob].has_timestamp
       \/ finished_blob # NoBlob /\ ~codec[finished_blob].has_timestamp
    THEN [error |-> "AssertionError", node_backups |-> <<>>]
    ELSE node_backups(Tail(entries), blobs_by_backup,
             Append(acc,
                 NodeBackup(backup_name, tokenmap_fqdn, lookup("manifest"),
                     lookup("schema"), lookup("tokenmap"), started_blob,
                     IF started_blob # NoBlob
                     THEN codec[started_blob].timestamp ELSE NoTs,
                     finished_blob,
                     IF finished_blob # NoBlob
                     THEN codec[finished_blob].timestamp ELSE NoTs,
                     differential_or_incremental)),
             differential_or_incremental)

\* sorted(..., key=lambda nb: nb.started): insertion after the equal keys
RECURSIVE insort(_, _)
insort(sorted, nb) ==
    IF sorted = <<>> THEN <<nb>>
    ELSE IF nb.started < Head(sorted).started THEN <<nb>> \o sorted
    ELSE <<Head(sorted)>> \o insort(Tail(sorted), nb)

RECURSIVE sorted_by_started(_)
sorted_by_started(nbs) ==
    IF nbs = <<>> THEN <<>>
    ELSE insort(sorted_by_started(SubSeq(nbs, 1, Len(nbs) - 1)), nbs[Len(nbs)])

\* no filter on the start time
has_started_or_not(nb) == TRUE

\* before sorting the backups, ensure we can work out at least their start time
has_started(nb) == nb.started # NoTs

sort_node_backups(nbs) == sorted_by_started(SelectSeq(nbs, has_started))

\* lines 142-197: the exception raised, or the sorted candidates
prepare(store, fqdn) ==
    LET backup_index_blobs == list_backup_index_blobs(store)
        raised == name_and_fqdn_error(backup_index_blobs)
    IN IF raised # "none" THEN [error |-> raised, node_backups |-> <<>>]
       ELSE LET built == node_backups(relevant_backup_names(backup_index_blobs, fqdn),
                             group_backup_index_by_backup_and_node(backup_index_blobs),
                             <<>>, Unbound)
            IN [error |-> built.error,
                node_backups |-> sort_node_backups(built.node_backups)]

(***************************************************************************)
(* ClusterBackup (medusa.storage.cluster_backup, as the specification      *)
(* describes it) and the grouping of list_cluster_backups                  *)
(***************************************************************************)

ClusterBackup(name, members) == [name |-> name, node_backups |-> members]

Members(cb) == {cb.node_backups[i] : i \in 1..Len(cb.node_backups)}

\* the earliest start among the members
cluster_started(cb) == Min({nb.started : nb \in Members(cb)})

\* the latest finish among the members, once every member reports a finish
cluster_finished(cb) ==
    IF \E nb \in Members(cb) : nb.finished = NoTs THEN NoTs
    ELSE Max({nb.finished : nb \in Members(cb)})

\* (a.name, a.started) < (b.name, b.started)
name_started_less(a, b) ==
    \/ StrLess(a.name, b.name)
    \/ a.name = b.name /\ a.started < b.started

RECURSIVE insort_name_started(_, _)
insort_name_started(sorted, nb) ==
    IF sorted = <<>> THEN <<nb>>
    ELSE IF name_started_less(nb, Head(sorted)) THEN <<nb>> \o sorted
    ELSE <<Head(sorted)>> \o insort_name_started(Tail(sorted), nb)

\* the NodeBackups as they were yielded
not_sorted(nbs) == nbs

\* sorted(..., key=lambda b: (b.name, b.started))
RECURSIVE sorted_by_name_started(_)
sorted_by_name_started(nbs) ==
    IF nbs = <<>> THEN <<>>
    ELSE insort_name_started(sorted_by_name_started(SubSeq(nbs, 1, Len(nbs) - 1)),
                             nbs[Len(nbs)])

\* itertools.groupby(node_backups, key=operator.attrgetter('name')): a new
\* group starts wherever the name changes
RECURSIVE groupby_name(_, _)
groupby_name(nbs, groups) ==
    IF nbs = <<>> THEN groups
    ELSE IF groups # <<>> /\ groups[Len(groups)].name = Head(nbs).name
    THEN groupby_name(Tail(nbs),
             [groups EXCEPT ![Len(groups)] =
                 ClusterBackup(@.name, Append(@.node_backups, Head(nbs)))])
    ELSE groupby_name(Tail(nbs), Append(groups, ClusterBackup(Head(nbs).name, <<Head(nbs)>>)))

\* the ClusterBackups yielded for the NodeBackups list_node_backups yielded
list_cluster_backups(yielded_node_backups) ==
    groupby_name(sorted_by_name_started(yielded_node_backups), <<>>)

\* max(cbs, key=..., default=None) as a sequence of at most one element: the
\* first of the greatest; keys[i] is the key of cbs[i]
first_max(cbs, keys) ==
    IF cbs = <<>> THEN <<>>
    ELSE LET first == CHOOSE i \in 1..Len(cbs) :
                          /\ \A j \in 1..Len(cbs) : keys[j] <= keys[i]
                          /\ \A j \in 1..(i - 1) : keys[j] < keys[i]
         IN <<cbs[first]>>

\* operator.attrgetter('started') and operator.attrgetter('finished') over cbs
started_keys(cbs) == [i \in 1..Len(cbs) |-> cluster_started(cbs[i])]

finished_keys(cbs) == [i \in 1..Len(cbs) |-> cluster_finished(cbs[i])]

\* the greatest by finish time
latest_finished_cluster_backup(cbs) == first_max(cbs, finished_keys(cbs))

latest_cluster_backup(cbs) == first_max(cbs, started_keys(cbs))

\* no filter on the finish time
unfiltered_backups(cbs) == cbs

\* filter(operator.attrgetter('finished'), ...): None and 0 are false
finished_backups(cbs) ==
    SelectSeq(cbs, LAMBDA cb : cluster_finished(cb) # NoTs /\ cluster_finished(cb) # 0)

latest_complete_cluster_backup(cbs) ==
    first_max(finished_backups(cbs), finished_keys(finished_backups(cbs)))

(***************************************************************************)
(* The state machine                                                       *)
(***************************************************************************)

\* an event of the pass: what happened to the candidate at a place of
\* sorted_node_backups
Event(op, at) == [op |-> op, at |-> at]

\* the NodeBackups of the log's events of one kind, in order
RECURSIVE Logged(_, _)
Logged(l, op) ==
    IF l = <<>> THEN <<>>
    ELSE IF Head(l).op = op
    THEN <<sorted_node_backups[Head(l).at]>> \o Logged(Tail(l), op)
    ELSE Logged(Tail(l), op)

Yielded == Logged(log, "yield")

\* the blobs of the universe that the persisted layout makes the marker of a
\* pair for a timestamp, and its entries of a kind
MarkerBlobs ==
    Table([pair \in Pairs, kind \in TsKinds, ts \in 1..(MaxTs + 1) |->
              BlobsOf({TsKey(pair[1], kind, pair[2], ts)})])

EntryBlobs ==
    Table([pair \in Pairs, kind \in Kinds \cup TsKinds |->
              IF kind \in TsKinds
              THEN BlobsOf({TsKey(pair[1], kind, pair[2], ts) : ts \in 1..(MaxTs + 1)})
              ELSE BlobsOf({IndexKey(pair[1], kind, pair[2], ext) :
                               ext \in {"json", "cql", "txt"}})])

\* a group of entries: what one run left for one pair, or one extra key
Groups ==
    {BlobsOf(ProfileKeys(pair, p)) : pair \in Pairs, p \in Profiles}
        \cup {BlobsOf({k}) : k \in ExtraKeys} \cup {{}}

\* the unions of at most n groups
RECURSIVE UnionsOf(_)
UnionsOf(n) ==
    IF n = 0 THEN {{}} ELSE {c \cup g : c \in UnionsOf(n - 1), g \in Groups}

IndexContents == UnionsOf(MaxBackups)

\* the pairs an index could list as candidates with a start time
Probed(store) ==
    {pair \in Pairs :
        /\ EntryBlobs[pair, "tokenmap"] \cap store # {}
        /\ EntryBlobs[pair, "started"] \cap store # {}}

\* the prefix of the whole index, whatever the node
index_prefix(fqdn) == <<"index", "/">>

\* index/latest_backup/<node_id>/
LatestPrefix(fqdn) == <<"index", "/", "latest_backup", "/">> \o fqdn \o <<"/">>

\* index/latest_backup/<node_id>/backup_name.txt
PointerKey(fqdn) == LatestPrefix(fqdn) \o <<"backup_name", ".", "txt">>

\* what else a backup run stores under the path of a node
CompanionKey(fqdn) == LatestPrefix(fqdn) \o <<"tokenmap", ".", "json">>

\* a stored object and its content
Object(key, content) == [key |-> key, content |-> content]

\* the latest-backup objects of an index in which every node points to its
\* backup "a"
LatestBackups ==
    {Object(PointerKey(fqdn), <<"a">>) : fqdn \in Fqdns}
        \cup {Object(CompanionKey(fqdn), None) : fqdn \in Fqdns}

\* no call on the latest-backup pointers, no connection attempt and no
\* earlier pass
NoOtherCall ==
    /\ pc2 = "idle"
    /\ fqdn2 = None
    /\ markers = <<>>
    /\ provider = None
    /\ attempts = 0
    /\ first_pass = <<>>

Init ==
    /\ index \in IndexContents
    /\ data \in SUBSET {SchemaPath(pair[2], pair[1]) : pair \in Probed(index)}
    /\ index0 = index
    /\ pc = "idle"
    /\ fqdn_arg = None
    /\ sorted_node_backups = <<>>
    /\ pos = 0
    /\ previous_existed = FALSE
    /\ log = <<>>
    /\ error = "none"
    /\ result = [op |-> "none", value |-> <<>>]
    /\ latest = LatestBackups
    /\ NoOtherCall

\* the first next() on list_node_backups(fqdn=fqdn): lines 142-197
Start(fqdn) ==
    /\ pc = "idle"
    /\ fqdn_arg' = fqdn
    /\ \E r \in {prepare(index, fqdn)} :
          /\ error' = r.error
          /\ pc' = IF r.error = "none" THEN "walk" ELSE "raised"
          /\ sorted_node_backups' = r.node_backups
    /\ UNCHANGED <<index, data, index0, pos, previous_existed, log, result>>
    /\ UNCHANGED other_vars

\* the loop variable of line 201
node_backup == sorted_node_backups[pos + 1]

\* no short-circuit: a candidate after an existing one is probed as well
YieldAssumed_probed ==
    /\ pc = "walk" /\ pos < Len(sorted_node_backups)
    /\ previous_existed
    /\ log' = log \o <<Event("found", pos + 1), Event("yield", pos + 1)>>
    /\ pos' = pos + 1
    /\ UNCHANGED <<index, data, index0, pc, fqdn_arg, sorted_node_backups,
                   previous_existed, error, result>>
    /\ UNCHANGED other_vars

\* lines 204-206: once one existed, all later ones are assumed to exist too
YieldAssumed ==
    /\ pc = "walk" /\ pos < Len(sorted_node_backups)
    /\ previous_existed
    /\ log' = Append(log, Event("yield", pos + 1))
    /\ pos' = pos + 1
    /\ UNCHANGED <<index, data, index0, pc, fqdn_arg, sorted_node_backups,
                   previous_existed, error, result>>
    /\ UNCHANGED other_vars

\* a probe that takes every candidate for existing
ProbeFound_unchecked ==
    /\ pc = "walk" /\ pos < Len(sorted_node_backups)
    /\ ~previous_existed
    /\ previous_existed' = TRUE
    /\ log' = log \o <<Event("found", pos + 1), Event("yield", pos + 1)>>
    /\ pos' = pos + 1
    /\ UNCHANGED <<index, data, index0, pc, fqdn_arg, sorted_node_backups, error, result>>
    /\ UNCHANGED other_vars

\* lines 212-214
ProbeFound ==
    /\ pc = "walk" /\ pos < Len(sorted_node_backups)
    /\ ~previous_existed
    /\ exists(node_backup, data)
    /\ previous_existed' = TRUE
    /\ log' = log \o <<Event("found", pos + 1),
                       Event("yield", pos + 1)>>
    /\ pos' = pos + 1
    /\ UNCHANGED <<index, data, index0, pc, fqdn_arg, sorted_node_backups, error, result>>
    /\ UNCHANGED other_vars

\* lines 215-219: the backup is present only in the index
ProbeAbsentRemoved ==
    /\ pc = "walk" /\ pos < Len(sorted_node_backups)
    /\ ~previous_existed
    /\ ~exists(node_backup, data)
    /\ index' = remove_backup_from_index(index, node_backup)
    /\ log' = log \o <<Event("absent", pos + 1),
                       Event("removed", pos + 1)>>
    /\ pos' = pos + 1
    /\ UNCHANGED <<data, index0, pc, fqdn_arg, sorted_node_backups,
                   previous_existed, error, result>>
    /\ UNCHANGED other_vars

\* InvalidCredsError not caught
ProbeAbsentDenied_uncaught ==
    /\ pc = "walk" /\ pos < Len(sorted_node_backups)
    /\ ~previous_existed
    /\ ~exists(node_backup, data)
    /\ log' = log \o <<Event("absent", pos + 1), Event("denied", pos + 1)>>
    /\ pc' = "raised"
    /\ error' = "InvalidCredsError"
    /\ UNCHANGED <<index, data, index0, fqdn_arg, sorted_node_backups, pos,
                   previous_existed, result>>
    /\ UNCHANGED other_vars

\* lines 218-225: the removal is rejected with InvalidCredsError, caught
ProbeAbsentDenied ==
    /\ pc = "walk" /\ pos < Len(sorted_node_backups)
    /\ ~previous_existed
    /\ ~exists(node_backup, data)
    /\ log' = log \o <<Event("absent", pos + 1),
                       Event("denied", pos + 1)>>
    /\ pos' = pos + 1
    /\ UNCHANGED <<index, data, index0, pc, fqdn_arg, sorted_node_backups,
                   previous_existed, error, result>>
    /\ UNCHANGED other_vars

\* a failing probe that is skipped over
ProbeRaises_skipped ==
    /\ pc = "walk" /\ pos < Len(sorted_node_backups)
    /\ ~previous_existed
    /\ log' = Append(log, Event("probe_error", pos + 1))
    /\ pos' = pos + 1
    /\ UNCHANGED <<index, data, index0, pc, fqdn_arg, sorted_node_backups,
                   previous_existed, error, result>>
    /\ UNCHANGED other_vars

\* line 212: the backend call of exists() raises; nothing catches it
ProbeRaises ==
    /\ pc = "walk" /\ pos < Len(sorted_node_backups)
    /\ ~previous_existed
    /\ log' = Append(log, Event("probe_error", pos + 1))
    /\ pc' = "raised"
    /\ error' = "StorageError"
    /\ UNCHANGED <<index, data, index0, fqdn_arg, sorted_node_backups, pos,
                   previous_existed, result>>
    /\ UNCHANGED other_vars

\* lines 218-220: the removal raises something other than InvalidCredsError
\* on its first backend call; the except clause does not catch it
RemoveRaises ==
    /\ pc = "walk" /\ pos < Len(sorted_node_backups)
    /\ ~previous_existed
    /\ ~exists(node_backup, data)
    /\ log' = log \o <<Event("absent", pos + 1),
                       Event("remove_error", pos + 1)>>
    /\ pc' = "raised"
    /\ error' = "StorageError"
    /\ UNCHANGED <<index, data, index0, fqdn_arg, sorted_node_backups, pos,
                   previous_existed, result>>
    /\ UNCHANGED other_vars

\* the loop of line 201 is exhausted: the generator returns
Return ==
    /\ pc = "walk" /\ pos = Len(sorted_node_backups)
    /\ pc' = "done"
    /\ UNCHANGED <<index, data, index0, fqdn_arg, sorted_node_backups, pos,
                   previous_existed, log, error, result>>
    /\ UNCHANGED other_vars

\* lines 301-308, over a list_node_backups pass without fqdn
ListClusterBackups ==
    /\ pc = "done" /\ fqdn_arg = None
    /\ pc' = "returned"
    /\ result' = [op |-> "list_cluster_backups", value |-> list_cluster_backups(Yielded)]
    /\ UNCHANGED <<index, data, index0, fqdn_arg, sorted_node_backups, pos,
                   previous_existed, log, error>>
    /\ UNCHANGED other_vars

\* lines 336-347
LatestClusterBackup ==
    /\ pc = "done" /\ fqdn_arg = None
    /\ pc' = "returned"
    /\ result' = [op |-> "latest_cluster_backup",
                  value |-> latest_cluster_backup(list_cluster_backups(Yielded))]
    /\ UNCHANGED <<index, data, index0, fqdn_arg, sorted_node_backups, pos,
                   previous_existed, log, error>>
    /\ UNCHANGED other_vars

\* lines 349-359
LatestCompleteClusterBackup ==
    /\ pc = "done" /\ fqdn_arg = None
    /\ pc' = "returned"
    /\ result' = [op |-> "latest_complete_cluster_backup",
                  value |-> latest_complete_cluster_backup(list_cluster_backups(Yielded))]
    /\ UNCHANGED <<index, data, index0, fqdn_arg, sorted_node_backups, pos,
                   previous_existed, log, error>>
    /\ UNCHANGED other_vars

Next ==
    \/ \E fqdn \in {None} \cup Fqdns : Start(fqdn)
    \/ YieldAssumed
    \/ ProbeFound
    \/ ProbeAbsentRemoved
    \/ ProbeAbsentDenied
    \/ ProbeRaises
    \/ RemoveRaises
    \/ Return
    \/ ListClusterBackups
    \/ LatestClusterBackup
    \/ LatestCompleteClusterBackup

Spec == Init /\ [][Next]_vars

(***************************************************************************)
(* Properties                                                              *)
(***************************************************************************)

\* the NodeBackup an event of the log concerns
Nb(i) == sorted_node_backups[log[i].at]

\* the positions of the log's events of one kind
Ops(op) == {i \in 1..Len(log) : log[i].op = op}

SamePair(nb, name, fqdn) == nb.name = name /\ nb.fqdn = fqdn

\* every blob the persisted layout gives a pair
PairBlobs ==
    Table([pair \in Pairs |->
              {b : b \in UNION {EntryBlobs[pair, kind] : kind \in Kinds \cup TsKinds}}])

PairOf(nb) == <<nb.name, nb.fqdn>>

StartedMarkers(store, pair) ==
    {ts \in 1..(MaxTs + 1) : MarkerBlobs[pair, "started", ts] \cap store # {}}

FinishedMarkers(store, pair) ==
    {ts \in 1..(MaxTs + 1) : MarkerBlobs[pair, "finished", ts] \cap store # {}}

\* the blobs of the universe whose names match neither pattern
MalformedBlobs == BlobsOf({k \in KeyUniverse : ~WellFormed(k)})

Completed == pc \in {"done", "returned"}

\* C1: after a complete pass in which no removal was denied, a NodeBackup
\* that was probed and found absent from the data namespace was not yielded,
\* is in no ClusterBackup of list_cluster_backups, and has no entry left in
\* the index: none that the persisted layout gives its pair, and none that
\* the next listing would group under its pair.
C1_SelfHealing ==
    (Completed /\ Ops("denied") = {}) =>
        \A i \in Ops("absent") :
            LET nb == Nb(i) IN
            /\ \A j \in Ops("yield") : ~SamePair(Nb(j), nb.name, nb.fqdn)
            /\ PairBlobs[PairOf(nb)] \cap index = {}
            /\ result.op = "list_cluster_backups" =>
                   \A c \in 1..Len(result.value) :
                       \A m \in Members(result.value[c]) : ~SamePair(m, nb.name, nb.fqdn)
            /\ pc = "done" =>
                   \A blob \in index :
                       codec[blob].well_formed =>
                           ~(/\ get_backup_name(blob) = nb.name
                             /\ codec[blob].fqdn = nb.fqdn)

C1_Witness ==
    /\ pc = "returned" /\ result.op = "list_cluster_backups"
    /\ Ops("denied") = {} /\ Ops("absent") # {} /\ Ops("yield") # {}
    /\ index # index0

\* C2 as stated: every NodeBackup the listing yields exists in the data
\* namespace.
C2_YieldedExist ==
    \A i \in Ops("yield") : exists(Nb(i), data)

\* C2 amended: every yielded NodeBackup was either probed and found in the
\* data namespace just before, or comes after a NodeBackup of the same pass
\* that was probed and found there and that started no later; only one probe
\* of a pass finds a backup.
C2_YieldedExistOrFollowExisting ==
    /\ Cardinality(Ops("found")) <= 1
    /\ \A i \in Ops("yield") :
          \E j \in Ops("found") :
              /\ j < i
              /\ exists(Nb(j), data)
              /\ Nb(j).started <= Nb(i).started
              /\ j = i - 1 => log[j].at = log[i].at
              /\ j < i - 1 => log[i - 1].op = "yield"

C2_Witness ==
    /\ pc = "done"
    /\ \E i \in Ops("yield") : ~exists(Nb(i), data)

\* the places of sorted_node_backups the events of the log concern
Touched == {log[i].at : i \in 1..Len(log)}

\* C3: every NodeBackup that an event of a pass concerns (probe, yield,
\* removal) has a start time, read from a started marker that the index held
\* for its own pair, and the index loses entries only of pairs whose removal
\* is logged: a pair with a tokenmap entry and no started marker is neither
\* probed nor yielded and keeps its index entries.
C3_NoUndefinedStarted ==
    /\ \A at \in Touched :
          LET nb == sorted_node_backups[at] IN
          /\ nb.started # NoTs
          /\ nb.started_blob \in index0
          /\ nb.started_blob \in EntryBlobs[PairOf(nb), "started"]
    /\ index # index0 =>
          \A blob \in index0 :
              \/ blob \in index
              \/ \E i \in Ops("removed") : blob \in PairBlobs[PairOf(Nb(i))]

C3_Witness ==
    /\ pc = "done" /\ Ops("found") # {}
    /\ \E pair \in Pairs :
          /\ EntryBlobs[pair, "tokenmap"] \cap index # {}
          /\ EntryBlobs[pair, "started"] \cap index0 = {}
          /\ SchemaPath(pair[2], pair[1]) \notin data

RECURSIVE Flatten(_)
Flatten(cbs) ==
    IF cbs = <<>> THEN <<>> ELSE Head(cbs).node_backups \o Flatten(Tail(cbs))

\* how often x occurs in seq
Count(seq, x) == Cardinality({i \in 1..Len(seq) : seq[i] = x})

\* C4: the members of every ClusterBackup of list_cluster_backups carry its
\* name, no two ClusterBackups carry the same name, the members taken
\* backup after backup are in non-decreasing (backup_name, started) order,
\* and they are exactly the NodeBackups the listing yielded.
C4_ClusterGrouping ==
    (pc = "returned" /\ result.op = "list_cluster_backups") =>
        LET cbs == result.value
            flat == Flatten(cbs)
        IN /\ \A c \in 1..Len(cbs) :
                 /\ cbs[c].node_backups # <<>>
                 /\ \A m \in Members(cbs[c]) : m.name = cbs[c].name
           /\ \A c, d \in 1..Len(cbs) : c # d => cbs[c].name # cbs[d].name
           /\ \A i, j \in 1..Len(flat) :
                 i < j => \/ StrLess(flat[i].name, flat[j].name)
                          \/ /\ flat[i].name = flat[j].name
                             /\ flat[i].started <= flat[j].started
           /\ Len(flat) = Len(Yielded)
           /\ \A m \in Range(Yielded) : Count(flat, m) = Count(Yielded, m)

C4_Witness ==
    /\ pc = "returned" /\ result.op = "list_cluster_backups"
    /\ Len(result.value) = 2
    /\ Yielded[1].name = result.value[2].name

\* the yielded NodeBackups of one backup name
YieldedOf(name) == {nb \in Range(Yielded) : nb.name = name}

CompleteNames ==
    {name \in {nb.name : nb \in Range(Yielded)} :
        \A nb \in YieldedOf(name) : nb.finished # NoTs}

C6_LatestStarted ==
    (pc = "returned" /\ result.op = "latest_cluster_backup") =>
        /\ Len(result.value) <= 1
        /\ result.value = <<>> <=> Yielded = <<>>
        /\ result.value # <<>> =>
              LET cb == result.value[1] IN
              /\ Members(cb) = YieldedOf(cb.name)
              /\ Members(cb) # {}
              /\ \A nb \in Range(Yielded) :
                     \E other \in YieldedOf(nb.name) :
                         \A m \in Members(cb) : m.started >= other.started

C6_Witness ==
    /\ pc = "returned" /\ result.op = "latest_cluster_backup"
    /\ result.value # <<>>
    /\ result.value[1].name \notin CompleteNames
    /\ CompleteNames # {}

\* the entry of one kind the persisted layout gives a pair, if the index
\* held it when the pass began
OwnEntry(name, kind, fqdn, ext) ==
    LET held == BlobsOf({IndexKey(name, kind, fqdn, ext)}) \cap index0
    IN IF held = {} THEN NoBlob ELSE CHOOSE blob \in held : TRUE

\* the marker the persisted layout gives a pair for a timestamp
OwnMarker(pair, kind, ts) == CHOOSE blob \in MarkerBlobs[pair, kind, ts] : TRUE

\* C7: after a complete pass without fqdn, or with the pair's own node as
\* fqdn, a pair that has a tokenmap entry and a started marker in the index
\* and its schema file in the data namespace is yielded exactly once, with
\* start and finish times read from its own markers (no finish time when it
\* has no finished marker) and with its own tokenmap, schema, manifest,
\* marker and differential entries, or none, as companion blobs.
C7_OneNodeBackupPerPair ==
    (Completed /\ fqdn_arg \in {None} \cup Fqdns) =>
        \A pair \in Pairs :
            (/\ fqdn_arg \in {None, pair[2]}
             /\ EntryBlobs[pair, "tokenmap"] \cap index0 # {}
             /\ StartedMarkers(index0, pair) # {}
             /\ SchemaPath(pair[2], pair[1]) \in data)
            => /\ Cardinality({i \in Ops("yield") : PairOf(Nb(i)) = pair}) = 1
               /\ \A i \in Ops("yield") :
                     PairOf(Nb(i)) = pair =>
                        LET nb == Nb(i) IN
                        /\ nb.started \in StartedMarkers(index0, pair)
                        /\ nb.started_blob = OwnMarker(pair, "started", nb.started)
                        /\ IF FinishedMarkers(index0, pair) = {}
                           THEN nb.finished = NoTs /\ nb.finished_blob = NoBlob
                           ELSE /\ nb.finished \in FinishedMarkers(index0, pair)
                                /\ nb.finished_blob = OwnMarker(pair, "finished", nb.finished)
                        /\ nb.tokenmap_blob = OwnEntry(pair[1], "tokenmap", pair[2], "json")
                        /\ nb.schema_blob = OwnEntry(pair[1], "schema", pair[2], "cql")
                        /\ nb.manifest_blob = OwnEntry(pair[1], "manifest", pair[2], "json")
                        /\ IF nb.differential_blob = NoBlob
                           THEN /\ EntryBlobs[pair, "differential"] \cap index0 = {}
                                /\ EntryBlobs[pair, "incremental"] \cap index0 = {}
                           ELSE nb.differential_blob \in
                                    EntryBlobs[pair, "differential"]
                                        \cup EntryBlobs[pair, "incremental"]

\* C8: a removal rejected with InvalidCredsError does not end the pass: the
\* NodeBackup keeps its index entries and is not yielded, the loop moves to
\* the candidate after it with no error raised, and a pass that completes has
\* yielded or found absent every candidate after it.
C8_DeniedRemovalSwallowed ==
    \A i \in Ops("denied") :
        LET nb == Nb(i) IN
        /\ nb.tokenmap_blob \in index
        /\ PairBlobs[PairOf(nb)] \cap index0 \subseteq index
        /\ \A j \in Ops("yield") : log[j].at # log[i].at
        /\ pos >= log[i].at
        /\ i = Len(log) => pc # "raised" /\ error = "none" /\ pos = log[i].at
        /\ Completed =>
               \A k \in (log[i].at + 1)..Len(sorted_node_backups) :
                   \E j \in Ops("yield") \cup Ops("absent") :
                       j > i /\ log[j].at = k

C8_Witness ==
    /\ pc = "done"
    /\ \E i \in Ops("denied") : \E j \in Ops("yield") : j > i

\* C9: when some key of the index matches neither naming pattern, the first
\* step of the listing raises AssertionError: nothing is yielded, nothing is
\* probed and the index is left as it was.
C9_MalformedKeyAborts ==
    (pc # "idle" /\ index0 \cap MalformedBlobs # {}) =>
        /\ pc = "raised"
        /\ error = "AssertionError"
        /\ log = <<>>
        /\ index = index0

C9_Witness ==
    /\ pc = "raised" /\ error = "AssertionError"
    /\ index0 \cap MalformedBlobs # {}
    /\ \E pair \in Probed(index0) : SchemaPath(pair[2], pair[1]) \in data

\* C10 as stated: a failure of the existence probe or of the cleanup does not
\* abort the listing.
C10_FailuresDoNotAbort ==
    \A i \in Ops("probe_error") \cup Ops("remove_error") : pc # "raised"

\* C10 amended: a failure of the existence probe, or a failure of the cleanup
\* other than InvalidCredsError, ends the pass with that error: the failing
\* NodeBackup is not yielded, no later candidate is probed, yielded or
\* removed, and a failed probe leaves the index entries in place.
C10_FailuresAbort ==
    \A i \in Ops("probe_error") \cup Ops("remove_error") :
        LET nb == Nb(i) IN
        /\ i = Len(log)
        /\ pc = "raised" /\ error = "StorageError"
        /\ log[i].at = pos + 1
        /\ \A j \in Ops("yield") : log[j].at # log[i].at
        /\ \A j \in 1..Len(log) : log[j].at <= pos + 1
        /\ log[i].op = "probe_error" =>
               PairBlobs[PairOf(nb)] \cap index0 \subseteq index

C10_Witness ==
    /\ pc = "raised" /\ Ops("probe_error") # {}
    /\ pos + 1 < Len(sorted_node_backups)
    /\ exists(sorted_node_backups[pos + 1], data)

(***************************************************************************)
(* remove_backup_from_index called on its own, as retention tooling does   *)
(***************************************************************************)

\* remove_backup_from_index is called at most MaxCalls times in a row
MaxCalls == 2

\* the NodeBackup of a pair as a caller outside a listing holds it
NodeBackupOf(pair) ==
    NodeBackup(pair[1], pair[2], NoBlob, NoBlob, NoBlob, NoBlob, NoTs, NoBlob, NoTs, NoBlob)

InitRemove ==
    /\ index \in IndexContents
    /\ data = {}
    /\ index0 = index
    /\ pc = "idle"
    /\ fqdn_arg = None
    /\ sorted_node_backups = <<>>
    /\ pos = 0
    /\ previous_existed = FALSE
    /\ log = <<>>
    /\ error = "none"
    /\ result = [op |-> "none", value |-> <<>>]
    /\ latest = LatestBackups
    /\ NoOtherCall

\* lines 367-374; the log keeps the index each call left
RemoveBackupFromIndex(pair) ==
    /\ pc = "idle" /\ Len(log) < MaxCalls
    /\ index' = remove_backup_from_index(index, NodeBackupOf(pair))
    /\ log' = Append(log, [op |-> "removed", pair |-> pair, index |-> index'])
    /\ UNCHANGED <<data, index0, pc, fqdn_arg, sorted_node_backups, pos,
                   previous_existed, error, result>>
    /\ UNCHANGED other_vars

NextRemove == \E pair \in Pairs : RemoveBackupFromIndex(pair)

SpecRemove == InitRemove /\ [][NextRemove]_vars

\* the index a call of the log started from
IndexBefore(i) == IF i = 1 THEN index0 ELSE log[i - 1].index

RECURSIVE SortObjects(_)
SortObjects(objects) ==
    IF objects = {} THEN <<>>
    ELSE LET first == CHOOSE o \in objects :
                          \A other \in objects \ {o} : StrLess(o.key, other.key)
         IN <<first>> \o SortObjects(objects \ {first})

HasPrefix(key, path) == Len(key) >= Len(path) /\ SubSeq(key, 1, Len(path)) = path

\* a listed blob of the index, a listed latest-backup object
IndexBlob(blob) == [index |-> {blob}, latest |-> {}]

LatestObject(o) == [index |-> {}, latest |-> {o}]

list_all_objects(path) ==
    LET blobs == list_objects(index, path)
        objects == SortObjects({o \in latest : HasPrefix(o.key, path)})
    IN [i \in 1..Len(blobs) |-> IndexBlob(blobs[i])]
           \o [i \in 1..Len(objects) |-> LatestObject(objects[i])]

\* line 383
ListMarkers(fqdn) ==
    /\ pc2 = "idle"
    /\ fqdn2' = fqdn
    /\ markers' = list_all_objects(LatestPrefix(fqdn))
    /\ pc2' = "delete"
    /\ UNCHANGED <<latest, provider, attempts, first_pass>>
    /\ UNCHANGED list_vars

\* lines 384-385: delete_object(marker), a no-op on a key already deleted
DeleteMarker ==
    /\ pc2 = "delete" /\ markers # <<>>
    /\ index' = index \ Head(markers).index
    /\ latest' = latest \ Head(markers).latest
    /\ markers' = Tail(markers)
    /\ UNCHANGED <<pc2, fqdn2, provider, attempts, first_pass>>
    /\ UNCHANGED <<data, index0, pc, fqdn_arg, sorted_node_backups, pos,
                   previous_existed, log, error, result>>

\* the loop of line 384 is exhausted
MarkersRemoved ==
    /\ pc2 = "delete" /\ markers = <<>>
    /\ pc2' = "done"
    /\ UNCHANGED <<latest, fqdn2, markers, provider, attempts, first_pass>>
    /\ UNCHANGED list_vars

\* one engine lists the node backups, the other removes the markers of a node
NextConcurrent ==
    \/ Start(None)
    \/ YieldAssumed
    \/ ProbeFound
    \/ ProbeAbsentRemoved
    \/ Return
    \/ \E fqdn \in Fqdns : ListMarkers(fqdn)
    \/ DeleteMarker
    \/ MarkersRemoved

SpecConcurrent == Init /\ [][NextConcurrent]_vars

\* the index a pass over the candidates leaves when nothing else runs
RECURSIVE pass_index(_, _)
pass_index(nbs, store) ==
    IF nbs = <<>> \/ exists(Head(nbs), data) THEN store
    ELSE pass_index(Tail(nbs), remove_backup_from_index(store, Head(nbs)))

\* the index and the latest-backup objects after list_node_backups and
\* remove_latest_backup_marker(fqdn2) ran one after the other
SequentialIndex == pass_index(prepare(index0, None).node_backups, index0)

SequentialLatest ==
    {o \in LatestBackups : ~HasPrefix(o.key, LatestPrefix(fqdn2))}

\* the error list_node_backups raises on the initial index when it runs alone
SequentialError == prepare(index0, None).error

DifferentialPath(fqdn, name) ==
    fqdn \o <<"/">> \o name \o <<"/", "meta", "/", "differential">>

IncrementalPath(fqdn, name) ==
    fqdn \o <<"/">> \o name \o <<"/", "meta", "/", "incremental">>

\* what a node's backup leaves in the data namespace: nothing, a full or a
\* differential backup, a backup of the time of "incremental", or a backup
\* whose schema is gone
MetaLayouts(fqdn, name) ==
    <<{},
      {SchemaPath(fqdn, name)},
      {SchemaPath(fqdn, name), DifferentialPath(fqdn, name)},
      {SchemaPath(fqdn, name), IncrementalPath(fqdn, name)},
      {DifferentialPath(fqdn, name)}>>

DataContents ==
    {UNION {MetaLayouts(pair[2], pair[1])[layout[pair]] : pair \in Pairs} :
        layout \in [Pairs -> 1..5]}

\* what index/latest_backup/<node_id>/ holds: a pointer or none, with or
\* without the object written next to it
LatestOf(fqdn) ==
    {pointer \cup companion :
        pointer \in {{}} \cup {{Object(PointerKey(fqdn), name)} : name \in BackupNames},
        companion \in {{}, {Object(CompanionKey(fqdn), None)}}}

LatestContents ==
    {UNION {under[fqdn] : fqdn \in Fqdns} :
        under \in {f \in [Fqdns -> UNION {LatestOf(fqdn) : fqdn \in Fqdns}] :
                      \A fqdn \in Fqdns : f[fqdn] \in LatestOf(fqdn)}}

InitLatest ==
    /\ index = {}
    /\ data \in DataContents
    /\ index0 = index
    /\ pc = "idle"
    /\ fqdn_arg = None
    /\ sorted_node_backups = <<>>
    /\ pos = 0
    /\ previous_existed = FALSE
    /\ log = <<>>
    /\ error = "none"
    /\ result = [op |-> "none", value |-> <<>>]
    /\ latest \in LatestContents
    /\ NoOtherCall

\* line 313: the pointer objects get_blob_content_as_string can read
Pointers(fqdn) == {o \in latest : o.key = PointerKey(fqdn)}

\* lines 314-316 and 322: get_blob answers None for a key that is not there
get_blob(key) == IF key \in data THEN key ELSE None

differential_or_incremental(fqdn, name) ==
    IF get_blob(DifferentialPath(fqdn, name)) # None
    THEN get_blob(DifferentialPath(fqdn, name))
    ELSE get_blob(IncrementalPath(fqdn, name))

\* lines 318-323: the other blobs are not loaded
latest_NodeBackup(fqdn, name) ==
    NodeBackup(name, fqdn, NoBlob, NoBlob, NoBlob, NoBlob, NoTs, NoBlob, NoTs,
               differential_or_incremental(fqdn, name))

\* a mutant: the exception of the try block reaches the caller
reraised(exception) == exception

\* line 332: except Exception catches whatever the try block raised
caught(exception) == "none"

\* lines 332-334: return None
ReturnNone(exception) ==
    /\ result' = [op |-> "latest_node_backup", value |-> <<>>]
    /\ error' = caught(exception)
    /\ pc2' = "returned"

unchanged_by_latest_node_backup ==
    UNCHANGED <<index, data, index0, pc, fqdn_arg, sorted_node_backups, pos,
                previous_existed, provider, attempts, first_pass>>

\* lines 313-330: the pointer is read, the backup it names exists
LatestReturned(fqdn) ==
    /\ pc2 = "idle"
    /\ \E pointer \in Pointers(fqdn) :
          /\ exists(latest_NodeBackup(fqdn, pointer.content), data)
          /\ result' = [op |-> "latest_node_backup",
                        value |-> <<latest_NodeBackup(fqdn, pointer.content)>>]
          /\ log' = Append(log, Event("read", pointer.content))
    /\ fqdn2' = fqdn
    /\ pc2' = "returned"
    /\ UNCHANGED <<latest, markers, error>>
    /\ unchanged_by_latest_node_backup

\* line 313: there is no pointer to read
LatestUnreadable(fqdn) ==
    /\ pc2 = "idle"
    /\ Pointers(fqdn) = {}
    /\ fqdn2' = fqdn
    /\ log' = Append(log, Event("failed", "get_blob_content_as_string"))
    /\ ReturnNone("Exception")
    /\ UNCHANGED <<latest, markers>>
    /\ unchanged_by_latest_node_backup

\* lines 313-325: a call of the storage driver raises
LatestStorageError(fqdn) ==
    /\ pc2 = "idle"
    /\ fqdn2' = fqdn
    /\ \E call \in {"get_blob_content_as_string", "get_blob", "exists"} :
          log' = Append(log, Event("failed", call))
    /\ ReturnNone("Exception")
    /\ UNCHANGED <<latest, markers>>
    /\ unchanged_by_latest_node_backup

\* lines 325-327: the pointer names a backup that does not exist
LatestDangling(fqdn) ==
    /\ pc2 = "idle"
    /\ \E pointer \in Pointers(fqdn) :
          /\ ~exists(latest_NodeBackup(fqdn, pointer.content), data)
          /\ log' = Append(log, Event("dangling", pointer.content))
    /\ fqdn2' = fqdn
    /\ pc2' = "remove_latest_backup_marker"
    /\ UNCHANGED <<latest, markers, error, result>>
    /\ unchanged_by_latest_node_backup

\* line 383
HealList ==
    /\ pc2 = "remove_latest_backup_marker"
    /\ markers' = list_all_objects(LatestPrefix(fqdn2))
    /\ pc2' = "for marker in markers"
    /\ UNCHANGED <<latest, fqdn2, log, error, result>>
    /\ unchanged_by_latest_node_backup

\* line 383: the listing raises
HealListFails ==
    /\ pc2 = "remove_latest_backup_marker"
    /\ log' = Append(log, Event("failed", "list_objects"))
    /\ ReturnNone("Exception")
    /\ UNCHANGED <<latest, fqdn2, markers>>
    /\ unchanged_by_latest_node_backup

\* the body of the loop of line 384
HealDelete ==
    /\ pc2 = "for marker in markers" /\ markers # <<>>
    /\ latest' = latest \ Head(markers).latest
    /\ markers' = Tail(markers)
    /\ log' = Append(log, Event("deleted", Head(markers).latest))
    /\ UNCHANGED <<pc2, fqdn2, error, result>>
    /\ unchanged_by_latest_node_backup

\* the body of the loop of line 384: the deletion raises
HealDeleteFails ==
    /\ pc2 = "for marker in markers" /\ markers # <<>>
    /\ log' = Append(log, Event("failed", "delete_object"))
    /\ ReturnNone("Exception")
    /\ UNCHANGED <<latest, fqdn2, markers>>
    /\ unchanged_by_latest_node_backup

\* line 328: the markers are gone, raise Exception
HealDone ==
    /\ pc2 = "for marker in markers" /\ markers = <<>>
    /\ ReturnNone("Exception")
    /\ UNCHANGED <<latest, fqdn2, markers, log>>
    /\ unchanged_by_latest_node_backup

NextLatest ==
    \/ \E fqdn \in Fqdns : LatestReturned(fqdn)
    \/ \E fqdn \in Fqdns : LatestUnreadable(fqdn)
    \/ \E fqdn \in Fqdns : LatestStorageError(fqdn)
    \/ \E fqdn \in Fqdns : LatestDangling(fqdn)
    \/ HealList
    \/ HealListFails
    \/ HealDelete
    \/ HealDeleteFails
    \/ HealDone

SpecLatest == InitLatest /\ [][NextLatest]_vars

Returned == pc2 = "returned"

\* the objects under index/latest_backup/<fqdn>/
Under(objects, fqdn) == {o \in objects : HasPrefix(o.key, LatestPrefix(fqdn))}

C14_FilterYieldsOnlyNode ==
    fqdn_arg \in Fqdns =>
        /\ \A i \in 1..Len(log) : Nb(i).fqdn = fqdn_arg
        /\ \A pair \in Pairs :
               pair[2] # fqdn_arg => PairBlobs[pair] \cap index0 \subseteq index

(***************************************************************************)
(* discover_node_backups (lines 83-119)                                    *)
(***************************************************************************)

\* <node_id>/<backup_name>/meta/schema.cql
SchemaCqlPath(fqdn, name) == SchemaPath(fqdn, name) \o <<".", "cql">>

\* a data file of the backup, outside the metadata folder
DataFilePath(fqdn, name) == fqdn \o <<"/">> \o name \o <<"/", "data", "/", "x">>

\* what a backup leaves under <node_id>/<backup_name>/
FolderLayouts(fqdn, name) ==
    <<{},
      {DataFilePath(fqdn, name)},
      {DifferentialPath(fqdn, name), DataFilePath(fqdn, name)},
      {SchemaPath(fqdn, name)},
      {SchemaPath(fqdn, name), DifferentialPath(fqdn, name), DataFilePath(fqdn, name)},
      {SchemaCqlPath(fqdn, name)},
      {SchemaCqlPath(fqdn, name), DifferentialPath(fqdn, name), DataFilePath(fqdn, name)}>>

FolderContents ==
    {UNION {FolderLayouts(pair[2], pair[1])[layout[pair]] : pair \in Pairs} :
        layout \in [Pairs -> 1..7]}

InitDiscover ==
    /\ index = {}
    /\ data \in FolderContents
    /\ index0 = index
    /\ pc = "idle"
    /\ fqdn_arg = None
    /\ sorted_node_backups = <<>>
    /\ pos = 0
    /\ previous_existed = FALSE
    /\ log = <<>>
    /\ error = "none"
    /\ result = [op |-> "none", value |-> <<>>]
    /\ latest = LatestBackups
    /\ NoOtherCall

\* lines 91-94: pathlib.Path(blob.name).parts, fqdn, name, *_
get_backup_name_from_blob(blob_name) == <<Split(blob_name)[1], Split(blob_name)[2]>>

\* lines 96-97: blob.name.endswith('/schema.cql')
is_schema_blob(blob_name) ==
    /\ Len(blob_name) >= 4
    /\ SubSeq(blob_name, Len(blob_name) - 3, Len(blob_name)) = <<"/", "schema", ".", "cql">>

\* lines 99-100
includes_schema_blob(blobs) == \E i \in 1..Len(blobs) : is_schema_blob(blobs[i])

\* line 102
prefix_path(fqdn) == IF fqdn # None THEN fqdn ELSE <<>>

\* lines 106-111: the listing under the prefix, filtered and sorted by name
all_blobs(store, fqdn) ==
    SortKeys({k \in store : HasPrefix(k, prefix_path(fqdn)) /\ IsSubstr(<<"meta">>, k)})

\* line 115: itertools.groupby cuts the sorted blobs into runs of equal key
RECURSIVE groupby(_, _)
groupby(blobs, groups) ==
    IF blobs = <<>> THEN groups
    ELSE LET key == get_backup_name_from_blob(Head(blobs)) IN
         IF groups # <<>> /\ groups[Len(groups)].key = key
         THEN groupby(Tail(blobs),
                      [groups EXCEPT ![Len(groups)].blobs = Append(@, Head(blobs))])
         ELSE groupby(Tail(blobs), Append(groups, [key |-> key, blobs |-> <<Head(blobs)>>]))

\* line 119: NodeBackup(storage=self, fqdn=fqdn, name=backup_name, preloaded_blobs=backup_blobs)
discovered_NodeBackup(group) ==
    [fqdn |-> group.key[1], name |-> group.key[2], preloaded_blobs |-> group.blobs]

unchanged_by_discover ==
    UNCHANGED <<index, data, index0, pc, fqdn_arg, sorted_node_backups, pos,
                previous_existed, error, result, latest, provider, attempts,
                first_pass>>

\* lines 102-113: the generator runs up to the loop
DiscoverStart(fqdn) ==
    /\ pc2 = "idle"
    /\ fqdn2' = fqdn
    /\ markers' = groupby(all_blobs(data, fqdn), <<>>)
    /\ pc2' = "groupby"
    /\ UNCHANGED log
    /\ unchanged_by_discover

\* lines 115-119: a group with a schema blob
DiscoverYield ==
    /\ pc2 = "groupby" /\ markers # <<>>
    /\ includes_schema_blob(Head(markers).blobs)
    /\ log' = Append(log, Event("yield", discovered_NodeBackup(Head(markers))))
    /\ markers' = Tail(markers)
    /\ UNCHANGED <<pc2, fqdn2>>
    /\ unchanged_by_discover

\* lines 115-117: a group without one
DiscoverSkip ==
    /\ pc2 = "groupby" /\ markers # <<>>
    /\ ~includes_schema_blob(Head(markers).blobs)
    /\ markers' = Tail(markers)
    /\ UNCHANGED <<pc2, fqdn2, log>>
    /\ unchanged_by_discover

\* line 115: the groups are exhausted
DiscoverDone ==
    /\ pc2 = "groupby" /\ markers = <<>>
    /\ pc2' = "done"
    /\ UNCHANGED <<fqdn2, markers, log>>
    /\ unchanged_by_discover

NextDiscover ==
    \/ \E fqdn \in {None} \cup Fqdns : DiscoverStart(fqdn)
    \/ DiscoverYield
    \/ DiscoverSkip
    \/ DiscoverDone

SpecDiscover == InitDiscover /\ [][NextDiscover]_vars

\* the yields of a (node, backup name)
DiscoveredOf(fqdn, name) ==
    {i \in Ops("yield") : log[i].at.fqdn = fqdn /\ log[i].at.name = name}

\* C15: after discover_node_backups has run to its end, a (node, backup
\* name) whose folder holds <node_id>/<backup_name>/meta/schema was yielded
\* exactly once, unless a fqdn was given and it is another node's; every
\* other one was not yielded; with a fqdn only NodeBackups of that node were
\* yielded.
C15_DiscoverYieldsGroupsWithSchema ==
    pc2 = "done" =>
        /\ \A pair \in Pairs :
              Cardinality(DiscoveredOf(pair[2], pair[1])) =
                  IF /\ SchemaPath(pair[2], pair[1]) \in data
                     /\ fqdn2 \in {None, pair[2]}
                  THEN 1 ELSE 0
        /\ \A i \in Ops("yield") :
              /\ <<log[i].at.name, log[i].at.fqdn>> \in Pairs
              /\ fqdn2 # None => log[i].at.fqdn = fqdn2

(***************************************************************************)
(* The naming codec on the keys of the key scheme (lines 42-43, 259-289)   *)
(***************************************************************************)

\* node identifiers: plain, dotted, dashed, with an underscore, with a label
\* that is also an extension, with a part that is also a kind
NodeIds ==
    {<<"n">>, <<"n", "x">>, <<"n", ".", "x">>, <<"n", "-", "1">>, <<"n", "_", "1">>,
     <<"n", ".", "cql", ".", "x">>, <<"n", "_", "schema", "_", "x">>}

\* the extensions of the entries without timestamp, "" for none
EntryExtensions == {"", "json", "cql", "txt"}

\* the key the key scheme gives a kind, a node identifier and, for the
\* started and finished markers, a timestamp
encode(name, kind, fqdn, ext, ts) ==
    IF kind \in TsKinds THEN TsKey(name, kind, fqdn, ts)
    ELSE IF ext = "" THEN IndexPrefix \o name \o <<"/", kind, "_">> \o fqdn
    ELSE IndexKey(name, kind, fqdn, ext)

InitCodec ==
    /\ index = {}
    /\ data = {}
    /\ index0 = index
    /\ pc = "idle"
    /\ fqdn_arg = None
    /\ sorted_node_backups = <<>>
    /\ pos = 0
    /\ previous_existed = FALSE
    /\ log = <<>>
    /\ error = "none"
    /\ result = [op |-> "none", value |-> <<>>]
    /\ latest = LatestBackups
    /\ NoOtherCall

unchanged_by_codec ==
    UNCHANGED <<index, data, index0, pc, fqdn_arg, sorted_node_backups, pos,
                previous_existed, latest, provider, attempts, first_pass>>

\* a key of the key scheme is written
Encode(name, kind, fqdn, ext, ts) ==
    /\ pc2 = "idle"
    /\ kind \in TsKinds <=> ts # NoTs
    /\ kind \in TsKinds => ext = "timestamp"
    /\ kind \in Kinds => ext \in EntryExtensions
    /\ fqdn2' = fqdn
    /\ markers' = <<encode(name, kind, fqdn, ext, ts)>>
    /\ log' = <<Event("encode", [name |-> name, kind |-> kind, ts |-> ts])>>
    /\ pc2' = "encoded"
    /\ UNCHANGED <<error, result>>
    /\ unchanged_by_codec

\* lines 259-269 and 285-289 on the key
Decode ==
    /\ pc2 = "encoded"
    /\ LET blob_name == markers[1] IN
          /\ error' = IF WellFormed(blob_name) THEN "none" ELSE "AssertionError"
          /\ result' =
                [op |-> "decode",
                 value |-> IF ~WellFormed(blob_name) THEN <<>>
                           ELSE <<[owner |-> get_fqdn_from_any_index_blob(blob_name),
                                   timestamp |-> IF HasTimestamp(blob_name)
                                                 THEN get_timestamp_from_blob_name(blob_name)
                                                 ELSE NoTs]>>]
    /\ pc2' = "decoded"
    /\ UNCHANGED <<fqdn2, markers, log>>
    /\ unchanged_by_codec

NextCodec ==
    \/ \E name \in BackupNames, kind \in Kinds \cup TsKinds, fqdn \in NodeIds,
          ext \in EntryExtensions \cup {"timestamp"}, ts \in {NoTs} \cup 1..MaxTs :
          Encode(name, kind, fqdn, ext, ts)
    \/ Decode

SpecCodec == InitCodec /\ [][NextCodec]_vars

\* C16: the key the key scheme gives a kind, a node identifier and a
\* timestamp decodes without error to exactly that node identifier and, for a
\* started or finished marker, to exactly that timestamp.
C16_CodecRoundTrip ==
    pc2 = "decoded" =>
        /\ error = "none"
        /\ result.value # <<>>
        /\ result.value[1].owner = fqdn2
        /\ result.value[1].timestamp = log[1].at.ts

(***************************************************************************)
(* Storage.__init__, _connect_storage (lines 53-68) and the retried        *)
(* get_node_backup (lines 74-81)                                           *)
(***************************************************************************)

\* libcloud's Provider.GOOGLE_STORAGE, Provider.S3 and Provider.LOCAL
Provider_GOOGLE_STORAGE == <<"google_storage">>

Provider_S3 == <<"s3">>

Provider_LOCAL == <<"local">>

\* config.storage_provider: the three backends, a regional S3 provider and a
\* provider the engine does not know
Providers ==
    {Provider_GOOGLE_STORAGE, Provider_S3, Provider_S3 \o <<"_us_west_oregon">>,
     Provider_LOCAL, <<"azure_blobs">>}

\* lines 61-66: the provider for which _connect_storage returns a backend
Supported(p) == p = Provider_GOOGLE_STORAGE \/ HasPrefix(p, Provider_S3) \/ p = Provider_LOCAL

\* line 74: stop_max_attempt_number
stop_max_attempt_number == 7

unchanged_by_connect ==
    UNCHANGED <<index, data, index0, pc, fqdn_arg, sorted_node_backups, pos,
                previous_existed, latest, markers, first_pass>>

\* lines 53-58, 60-66: the backend is constructed, once
ConnectStorage(p) ==
    /\ pc2 = "idle" /\ Supported(p)
    /\ provider' = p
    /\ attempts' = 1
    /\ pc2' = "connected"
    /\ UNCHANGED <<fqdn2, log, error, result>>
    /\ unchanged_by_connect

\* lines 57, 60-66: the constructor of the backend raises; nothing retries
ConnectStorageFails(p) ==
    /\ pc2 = "idle" /\ Supported(p)
    /\ provider' = p
    /\ attempts' = 1
    /\ error' = "BackendError"
    /\ pc2' = "construction failed"
    /\ UNCHANGED <<fqdn2, log, result>>
    /\ unchanged_by_connect

\* line 68
ConnectUnsupported(p) ==
    /\ pc2 = "idle" /\ ~Supported(p)
    /\ provider' = p
    /\ attempts' = 1
    /\ error' = "NotImplementedError"
    /\ pc2' = "construction failed"
    /\ UNCHANGED <<fqdn2, log, result>>
    /\ unchanged_by_connect

\* line 75: a call of get_node_backup enters the retry decorator
GetNodeBackup(fqdn, name, differential_mode) ==
    /\ pc2 = "connected"
    /\ fqdn2' = fqdn
    /\ log' = <<Event("get_node_backup",
                      [name |-> name, differential_mode |-> differential_mode])>>
    /\ attempts' = 0
    /\ pc2' = "get_node_backup"
    /\ UNCHANGED <<provider, error, result>>
    /\ unchanged_by_connect

\* lines 76-81: an attempt returns the NodeBackup
GetNodeBackupReturns ==
    /\ pc2 = "get_node_backup"
    /\ attempts' = attempts + 1
    /\ result' = [op |-> "get_node_backup",
                  value |-> <<[fqdn |-> fqdn2, name |-> log[1].at.name,
                               differential_mode |-> log[1].at.differential_mode]>>]
    /\ pc2' = "returned"
    /\ UNCHANGED <<provider, fqdn2, log, error>>
    /\ unchanged_by_connect

\* line 74: an attempt raises and the decorator calls again
GetNodeBackupRetried ==
    /\ pc2 = "get_node_backup"
    /\ attempts + 1 < stop_max_attempt_number
    /\ attempts' = attempts + 1
    /\ UNCHANGED <<provider, pc2, fqdn2, log, error, result>>
    /\ unchanged_by_connect

\* line 74: the last attempt raises and the decorator raises its exception
GetNodeBackupRaises ==
    /\ pc2 = "get_node_backup"
    /\ attempts + 1 = stop_max_attempt_number
    /\ attempts' = attempts + 1
    /\ error' = "BackendError"
    /\ pc2' = "raised"
    /\ UNCHANGED <<provider, fqdn2, log, result>>
    /\ unchanged_by_connect

NextConnect ==
    \/ \E p \in Providers : ConnectStorage(p)
    \/ \E p \in Providers : ConnectStorageFails(p)
    \/ \E p \in Providers : ConnectUnsupported(p)
    \/ \E fqdn \in Fqdns, name \in BackupNames, differential_mode \in BOOLEAN :
          GetNodeBackup(fqdn, name, differential_mode)
    \/ GetNodeBackupReturns
    \/ GetNodeBackupRetried
    \/ GetNodeBackupRaises

SpecConnect == InitCodec /\ [][NextConnect]_vars

\* C17: the construction of the engine ends with an error only for a provider
\* that is not supported, with the unsupported-provider error, or once the
\* backend has been constructed as many times as the attempt bound allows,
\* with the error of the backend; it never makes more attempts than that.
C17_ConstructionRetried ==
    /\ attempts <= stop_max_attempt_number
    /\ pc2 = "construction failed" =>
          \/ ~Supported(provider) /\ error = "NotImplementedError"
          \/ Supported(provider) /\ error = "BackendError"
                /\ attempts = stop_max_attempt_number

(***************************************************************************)
(* The walk of list_node_backups (lines 199-225): probes, yields, removals *)
(***************************************************************************)

\* the existence probes of the pass
Probes == Ops("found") \cup Ops("absent") \cup Ops("probe_error")

\* C18: in a pass of list_node_backups the candidates are in non-decreasing
\* order of start time and are taken in that order; after the first probe
\* that finds a backup the pass only yields, with no further probe and no
\* removal from the index, one candidate after the other; the NodeBackups
\* are yielded in non-decreasing order of start time.
C18_ExistenceShortCircuit ==
    /\ \A k \in 1..(Len(sorted_node_backups) - 1) :
          sorted_node_backups[k].started <= sorted_node_backups[k + 1].started
    /\ \A i \in 1..(Len(log) - 1) : log[i].at <= log[i + 1].at
    /\ \A j \in Ops("found") :
          /\ Probes \subseteq 1..j
          /\ Ops("removed") \subseteq 1..j
          /\ \A i \in (j + 1)..Len(log) :
                log[i].op = "yield" /\ log[i].at = log[j].at + (i - j - 1)
          /\ pc = "done" => log[Len(log)].at = Len(sorted_node_backups)
    /\ \A i, j \in Ops("yield") :
          i < j => log[i].at < log[j].at /\ Nb(i).started <= Nb(j).started

C18_Witness ==
    /\ pc = "done"
    /\ Ops("absent") = {}
    /\ \E j \in Ops("found") :
          \E i \in Ops("yield") :
              /\ i > j + 1
              /\ ~exists(Nb(i), data)
              /\ Nb(j).started < Nb(i).started
              /\ PairBlobs[PairOf(Nb(i))] \cap index # {}

\* C19: a step of a list_node_backups pass changes neither the data
\* namespace nor the latest-backup objects; it takes entries from the index
\* only when it has just probed the candidate at hand and found it absent
\* from the data namespace, and then only entries that the layout gives that
\* candidate's (backup_name, node): the entries of every other pair stay.
C19_ListingFrame ==
    [][/\ data' = data
       /\ latest' = latest
       /\ index' # index =>
             /\ pc = "walk" /\ pos < Len(sorted_node_backups)
             /\ ~previous_existed
             /\ ~exists(node_backup, data)
             /\ log' = log \o <<Event("absent", pos + 1), Event("removed", pos + 1)>>
             /\ index' \subseteq index
             /\ index \ index' \subseteq PairBlobs[PairOf(node_backup)]
             /\ \A pair \in Pairs \ {PairOf(node_backup)} :
                   PairBlobs[pair] \cap index \subseteq index']_vars

C19_Witness ==
    /\ pc = "done"
    /\ Ops("removed") # {} /\ index # index0
    /\ latest = LatestBackups /\ latest # {}
    /\ \E pair \in Pairs :
          /\ SchemaPath(pair[2], pair[1]) \in data
          /\ PairBlobs[pair] \cap index # {}
          /\ \E i \in Ops("removed") : Nb(i).fqdn = pair[2] /\ Nb(i).name # pair[1]

(***************************************************************************)
(* Two passes of list_node_backups, one after the other                    *)
(***************************************************************************)

\* what is kept of a pass that ran to its end
Pass ==
    [fqdn |-> fqdn_arg, yielded |-> Yielded, index |-> index,
     removed |-> index0 \ index, denied |-> Ops("denied") # {}]

\* the caller has consumed the pass to its end and is about to call
\* list_node_backups again: the locals of the generator are gone
SecondPass ==
    /\ pc = "done" /\ first_pass = <<>>
    /\ first_pass' = <<Pass>>
    /\ pc' = "idle"
    /\ index0' = index
    /\ sorted_node_backups' = <<>>
    /\ log' = <<>>
    /\ pos' = 0
    /\ previous_existed' = FALSE
    /\ UNCHANGED <<index, data, fqdn_arg, error, result>>
    /\ UNCHANGED <<latest, pc2, fqdn2, markers, provider, attempts>>

NextPasses ==
    \/ \E fqdn \in {None} \cup Fqdns : Start(fqdn)
    \/ YieldAssumed
    \/ ProbeFound
    \/ ProbeAbsentRemoved
    \/ ProbeAbsentDenied
    \/ Return
    \/ SecondPass

SpecPasses == Init /\ [][NextPasses]_vars

\* C20: in a pass of list_node_backups that follows, with the same fqdn and
\* on an unchanged data namespace, a pass consumed to its end in which no
\* removal was denied, nothing is taken from the index, at most one
\* existence probe is made and nothing is raised; once it has run to its end
\* it has yielded the sequence of NodeBackups the pass before it yielded.
C20_SecondPassConverged ==
    (/\ first_pass # <<>> /\ ~first_pass[1].denied
     /\ pc # "idle" /\ fqdn_arg = first_pass[1].fqdn) =>
        /\ index = index0 /\ index = first_pass[1].index
        /\ Cardinality(Probes) <= 1
        /\ Ops("absent") = {}
        /\ error = "none"
        /\ pc = "done" => Yielded = first_pass[1].yielded

C20_Witness ==
    /\ pc = "done"
    /\ first_pass # <<>> /\ ~first_pass[1].denied
    /\ fqdn_arg = first_pass[1].fqdn
    /\ first_pass[1].removed # {}
    /\ Len(Yielded) >= 1
    /\ Cardinality(Probes) = 1

=============================================================================
